---- MODULE Spec2Model ----
\* Model of Code/utility.py: piechart, barchart_continuous and
\* barchart_categorical, each a single call on a pandas dataframe.
\* A dataframe is a sequence of rows, a row a record column -> cell.
\* Numbers are exact: a quotient is kept as the pair [num, den], and a
\* quotient with den = 0 is the NaN that numpy's 0/0 yields.
EXTENDS Integers, Sequences, FiniteSets

\* ---------------------------------------------------------------- bounds
MaxRows == 3
MaxCats == 3
MaxN == 3

\* ------------------------------------------------------------ the cells
\* A missing numeric cell (NaN); every present numeric cell is >= 0.
NaN == -1
\* An optional argument left unset (min: float = None, max: float = None).
None == -2
\* A missing cell of the categorical column.
NaNLabel == "NaN"

FieldValues == {"red", "blue", "green", NaNLabel}
IdValues == {NaN, 0, 1}
AmountValues == {NaN, 1, 2, 3}
FlagValues == {NaN, 0, 1, 2}

PieCols == {"field", "VIN"}
ContCols == {"amount", "flag"}
CatCols == {"field", "flag"}
Schemas == {PieCols, ContCols, CatCols, {"field"}, {"VIN"}, {"amount"}, {"flag"}}

Rows(cols) ==
    IF cols = PieCols THEN [field : FieldValues, VIN : IdValues]
    ELSE IF cols = ContCols THEN [amount : AmountValues, flag : FlagValues]
    ELSE IF cols = CatCols THEN [field : FieldValues \ {"green"}, flag : FlagValues]
    ELSE IF cols = {"field"} THEN [field : {"red", NaNLabel}]
    ELSE IF cols = {"VIN"} THEN [VIN : {NaN, 1}]
    ELSE IF cols = {"amount"} THEN [amount : {NaN, 1, 3}]
    ELSE [flag : {0, 1}]

\* Every operation below reads the dataframe through the multiset of its
\* rows only (row order decides nothing but the order of ties in
\* sort_values, which is a free choice in piechart), so the dataframes
\* enumerated are those whose rows come in non-decreasing RowKey order.
LabelKey(v) == IF v = NaNLabel THEN 0 ELSE IF v = "red" THEN 1 ELSE IF v = "blue" THEN 2 ELSE 3

RowKey(r) ==
    LET d == DOMAIN r
    IN  (IF "field" \in d THEN 100 * LabelKey(r.field) ELSE 0)
      + (IF "VIN" \in d THEN 10 * (r.VIN + 1) ELSE 0)
      + (IF "amount" \in d THEN 10 * (r.amount + 1) ELSE 0)
      + (IF "flag" \in d THEN r.flag + 1 ELSE 0)

Datasets(cols) ==
    { s \in UNION { [1..k -> Rows(cols)] : k \in 0..MaxRows } :
        \A i \in 1..(Len(s) - 1) : RowKey(s[i]) <= RowKey(s[i + 1]) }

\* red x6, blue x3, green x1, the identifier present in every row.
ColorExample ==
    [i \in 1..10 |-> [field |-> IF i <= 6 THEN "red" ELSE IF i <= 9 THEN "blue" ELSE "green",
                      VIN |-> 1]]

\* ------------------------------------------------------------ quotients
Frac(a, b) == [num |-> a, den |-> b]
IsNaN(q) == q.den = 0
FracEq(p, q) == ~IsNaN(p) /\ ~IsNaN(q) /\ p.num * q.den = q.num * p.den
FracAdd(p, q) == Frac(p.num * q.den + q.num * p.den, p.den * q.den)

RECURSIVE SeqSum(_)
SeqSum(s) == IF s = <<>> THEN 0 ELSE Head(s) + SeqSum(Tail(s))

\* Series.sum() of a column of quotients: NaN entries are skipped.
RECURSIVE FracSumSkipNa(_)
FracSumSkipNa(s) ==
    IF s = <<>> THEN Frac(0, 1)
    ELSE IF IsNaN(Head(s)) THEN FracSumSkipNa(Tail(s))
    ELSE FracAdd(Head(s), FracSumSkipNa(Tail(s)))

\* The plain sum of a column of quotients: a NaN entry makes it NaN.
RECURSIVE FracSum(_)
FracSum(s) == IF s = <<>> THEN Frac(0, 1) ELSE FracAdd(Head(s), FracSum(Tail(s)))

Column(table, c) == [i \in 1..Len(table) |-> table[i][c]]

\* Python's seq[:k].
Slice(s, k) ==
    IF k >= 0 THEN SubSeq(s, 1, IF k < Len(s) THEN k ELSE Len(s))
    ELSE SubSeq(s, 1, IF Len(s) + k > 0 THEN Len(s) + k ELSE 0)

VARIABLES dataframe, columns, pc, fn, err, rendered,
          cats, pvt, top_n_cats,
          n, min, max, dataset_true, dataset_false, bars_true, bars_false,
          categories

vars == <<dataframe, columns, pc, fn, err, rendered, cats, pvt, top_n_cats,
          n, min, max, dataset_true, dataset_false, bars_true, bars_false, categories>>

pieVars == <<cats, pvt, top_n_cats>>
contVars == <<n, min, max, dataset_true, dataset_false, bars_true, bars_false>>

Init ==
    /\ \/ /\ columns \in Schemas
          /\ dataframe \in Datasets(columns)
       \/ /\ columns = PieCols
          /\ dataframe = ColorExample
    /\ pc = "ready"
    /\ fn = "none"
    /\ err = "none"
    /\ rendered = FALSE
    /\ cats = 0
    /\ pvt = <<>>
    /\ top_n_cats = <<>>
    /\ n = 0
    /\ min = None
    /\ max = None
    /\ dataset_true = <<>>
    /\ dataset_false = <<>>
    /\ bars_true = <<>>
    /\ bars_false = <<>>
    /\ categories = <<>>

\* ------------------------------------------------------------- piechart
\* The index of the pivot table: groupby drops the rows whose key is NaN.
Groups(df, field) == { df[i][field] : i \in DOMAIN df } \ {NaNLabel}

\* np.count_nonzero over the identifier cells of one group: a cell counts
\* unless it is 0; NaN is not 0 and counts.
count_nonzero(df, field, uid, c) ==
    Cardinality({ i \in DOMAIN df : df[i][field] = c /\ df[i][uid] # 0 })

\* The sort with ascending=False forgotten: Count does not decrease.
SortedOrdersAscending(df, field, uid) ==
    LET G == Groups(df, field)
        D == Cardinality(G)
    IN  { s \in [1..D -> G] :
            /\ \A i, j \in 1..D : i # j => s[i] # s[j]
            /\ \A i \in 1..(D - 1) :
                 count_nonzero(df, field, uid, s[i]) <= count_nonzero(df, field, uid, s[i + 1]) }

\* sort_values(ascending=False) with the default quicksort: any order of the
\* groups in which Count does not increase.
SortedOrders(df, field, uid) ==
    LET G == Groups(df, field)
        D == Cardinality(G)
    IN  { s \in [1..D -> G] :
            /\ \A i, j \in 1..D : i # j => s[i] # s[j]
            /\ \A i \in 1..(D - 1) :
                 count_nonzero(df, field, uid, s[i]) >= count_nonzero(df, field, uid, s[i + 1]) }

\* Lines 25-27: the sorted pivot table with its Concentration column.
PivotTable(df, field, uid, order) ==
    LET cnt == [i \in 1..Len(order) |-> count_nonzero(df, field, uid, order[i])]
        total == SeqSum(cnt)
    IN  [i \in 1..Len(order) |->
            [field |-> order[i], Count |-> cnt[i], Concentration |-> Frac(cnt[i], total)]]

\* Lines 29-30: the appended row.
OthersRow(table, top) ==
    LET s == FracSumSkipNa(Column(top, "Concentration"))
    IN  [field |-> "Others",
         Count |-> SeqSum(Column(table, "Count")) - SeqSum(Column(top, "Count")),
         Concentration |-> Frac(s.den - s.num, s.den)]

\* Lines 28-30.
TopNCats(table, k) == LET top == Slice(table, k) IN Append(top, OthersRow(table, top))

\* The calls modelled have at least one group (a row whose field is present).
piechart(field, unique_identifier) ==
    /\ pc = "ready"
    /\ \E k \in (0 - 1)..MaxCats :
        /\ cats' = k
        /\ fn' = "piechart"
        /\ \/ /\ ~({field, unique_identifier} \subseteq columns)
              /\ pc' = "raised"
              /\ err' = "KeyError"
              /\ UNCHANGED <<rendered, pvt, top_n_cats>>
           \/ /\ {field, unique_identifier} \subseteq columns
              /\ Groups(dataframe, field) # {}
              /\ \E order \in SortedOrders(dataframe, field, unique_identifier) :
                    /\ pvt' = PivotTable(dataframe, field, unique_identifier, order)
                    /\ top_n_cats' = TopNCats(pvt', k)
              /\ rendered' = TRUE
              /\ pc' = "done"
              /\ UNCHANGED err
    /\ UNCHANGED <<dataframe, columns, contVars, categories>>

\* -------------------------------------------------- barchart_continuous
MinChoices == {None, 1, 2}
MaxChoices == {None, 1, 3}

\* The split taken by truthiness: every cell that is not the other class.
LocNotOther(df, binary_var, v) == SelectSeq(df, LAMBDA r : r[binary_var] # 1 - v)

\* Lines 64-65: dataframe.loc[dataframe[binary_var] == v].
Loc(df, binary_var, v) == SelectSeq(df, LAMBDA r : r[binary_var] = v)

Present(df, field) == { df[i][field] : i \in DOMAIN df } \ {NaN}

\* Lines 67-68: Series.min() and Series.max() skip the missing cells.
ObservedMin(df, field) == CHOOSE v \in Present(df, field) : \A w \in Present(df, field) : v <= w
ObservedMax(df, field) == CHOOSE v \in Present(df, field) : \A w \in Present(df, field) : v >= w

\* Line 72 with pd.cut's defaults (right=True, include_lowest=False): the
\* boundaries are b(j) = lo + j*(hi-lo)/(k-1), j = 0..k-1, and bucket i is
\* the interval (b(i-1), b(i)]. Both sides are multiplied by k-1.
InBucket(v, i, lo, hi, k) ==
    /\ (i - 1) * (hi - lo) < (v - lo) * (k - 1)
    /\ (v - lo) * (k - 1) <= i * (hi - lo)

\* The category code pd.cut gives a cell: its bucket, or 0 for none (NaN).
BucketOf(v, lo, hi, k) ==
    IF v # NaN /\ \E i \in 1..(k - 1) : InBucket(v, i, lo, hi, k)
    THEN CHOOSE i \in 1..(k - 1) : InBucket(v, i, lo, hi, k)
    ELSE 0

\* Lines 73-74: the subset with its field column replaced by the codes.
Cut(subset, field, lo, hi, k) ==
    [i \in 1..Len(subset) |-> [subset[i] EXCEPT ![field] = BucketOf(subset[i][field], lo, hi, k)]]

\* Lines 81-82: groupby(field).size() / subset[field].count(); size() has
\* one entry per category of the cut, count() counts the assigned cells.
Bars(subset, field, k) ==
    LET assigned == Cardinality({ j \in DOMAIN subset : subset[j][field] # 0 })
    IN  [i \in 1..(k - 1) |->
            Frac(Cardinality({ j \in DOMAIN subset : subset[j][field] = i }), assigned)]

\* np.linspace refuses a negative number of samples; pd.cut refuses
\* decreasing bin edges, and repeated edges unless there are exactly two.
CutRaises(lo, hi, k) == k >= 2 /\ (hi < lo \/ (hi = lo /\ k # 2))

\* The calls modelled are those whose outcome the source and the documented
\* behaviour of numpy and pandas fix: when min or max is defaulted the field
\* has a present cell, and a call that reaches the chart has rows of both
\* classes.
barchart_continuous(field, binary_var) ==
    /\ pc = "ready"
    /\ \E k \in (0 - 1)..MaxN, lo \in MinChoices, hi \in MaxChoices :
        /\ n' = k
        /\ fn' = "barchart_continuous"
        /\ \/ \* line 64
              /\ binary_var \notin columns
              /\ min' = lo /\ max' = hi
              /\ pc' = "raised" /\ err' = "KeyError"
              /\ UNCHANGED <<rendered, dataset_true, dataset_false, bars_true, bars_false>>
           \/ \* line 67
              /\ binary_var \in columns /\ field \notin columns /\ lo = None
              /\ min' = lo /\ max' = hi
              /\ pc' = "raised" /\ err' = "KeyError"
              /\ UNCHANGED <<rendered, dataset_true, dataset_false, bars_true, bars_false>>
           \/ \* line 68
              /\ binary_var \in columns /\ field \notin columns /\ lo # None /\ hi = None
              /\ min' = lo /\ max' = hi
              /\ pc' = "raised" /\ err' = "KeyError"
              /\ UNCHANGED <<rendered, dataset_true, dataset_false, bars_true, bars_false>>
           \/ \* lines 67-68 passed
              /\ binary_var \in columns
              /\ field \in columns \/ (lo # None /\ hi # None)
              /\ (lo = None \/ hi = None) => Present(dataframe, field) # {}
              /\ min' = IF lo = None THEN ObservedMin(dataframe, field) ELSE lo
              /\ max' = IF hi = None THEN ObservedMax(dataframe, field) ELSE hi
              /\ \/ \* line 72
                    /\ k < 0
                    /\ pc' = "raised" /\ err' = "ValueError"
                    /\ UNCHANGED <<rendered, dataset_true, dataset_false, bars_true, bars_false>>
                 \/ \* line 73
                    /\ k >= 0 /\ field \notin columns
                    /\ pc' = "raised" /\ err' = "KeyError"
                    /\ UNCHANGED <<rendered, dataset_true, dataset_false, bars_true, bars_false>>
                 \/ \* line 73, pd.cut
                    /\ k >= 0 /\ field \in columns /\ CutRaises(min', max', k)
                    /\ pc' = "raised" /\ err' = "ValueError"
                    /\ UNCHANGED <<rendered, dataset_true, dataset_false, bars_true, bars_false>>
                 \/ \* lines 73-89, for a dataframe with rows of both classes
                    /\ k >= 0 /\ field \in columns /\ ~CutRaises(min', max', k)
                    /\ Loc(dataframe, binary_var, 1) # <<>>
                    /\ Loc(dataframe, binary_var, 0) # <<>>
                    /\ dataset_true' = Cut(Loc(dataframe, binary_var, 1), field, min', max', k)
                    /\ dataset_false' = Cut(Loc(dataframe, binary_var, 0), field, min', max', k)
                    /\ bars_true' = Bars(dataset_true', field, k)
                    /\ bars_false' = Bars(dataset_false', field, k)
                    /\ rendered' = TRUE
                    /\ pc' = "done"
                    /\ UNCHANGED err
    /\ UNCHANGED <<dataframe, columns, pieVars, categories>>

\* ------------------------------------------------- barchart_categorical
\* The cells of column col in the group c, the missing ones dropped: the
\* aggregations count, sum and mean all skip NaN.
GroupCells(df, field, c, col) ==
    Column(SelectSeq(df, LAMBDA r : r[field] = c /\ r[col] # NaN), col)

\* The aggregation with size in place of count: every row of the group counts.
AggSize(df, field, binary_variable) ==
    [c \in Groups(df, field) |->
        LET cells == GroupCells(df, field, c, binary_variable)
            size == Cardinality({ i \in DOMAIN df : df[i][field] = c })
        IN  [count |-> size, sum |-> SeqSum(cells), mean |-> Frac(SeqSum(cells), size)]]

\* Line 106: groupby([field])[binary_variable].agg(['count', 'sum', 'mean']).
Agg(df, field, binary_variable) ==
    [c \in Groups(df, field) |->
        LET cells == GroupCells(df, field, c, binary_variable)
        IN  [count |-> Len(cells), sum |-> SeqSum(cells), mean |-> Frac(SeqSum(cells), Len(cells))]]

\* The figure opened (line 108) before the columns are read (line 106).
barchart_categorical_figure_first(field, binary_variable) ==
    /\ pc = "ready"
    /\ fn' = "barchart_categorical"
    /\ \/ /\ ~({field, binary_variable} \subseteq columns)
          /\ pc' = "raised"
          /\ err' = "KeyError"
          /\ rendered' = TRUE
          /\ UNCHANGED categories
       \/ /\ {field, binary_variable} \subseteq columns
          /\ Groups(dataframe, field) # {}
          /\ categories' = Agg(dataframe, field, binary_variable)
          /\ rendered' = TRUE
          /\ pc' = "done"
          /\ UNCHANGED err
    /\ UNCHANGED <<dataframe, columns, pieVars, contVars>>

barchart_categorical(field, binary_variable) ==
    /\ pc = "ready"
    /\ fn' = "barchart_categorical"
    /\ \/ /\ ~({field, binary_variable} \subseteq columns)
          /\ pc' = "raised"
          /\ err' = "KeyError"
          /\ UNCHANGED <<rendered, categories>>
       \/ /\ {field, binary_variable} \subseteq columns
          /\ Groups(dataframe, field) # {}
          /\ categories' = Agg(dataframe, field, binary_variable)
          /\ rendered' = TRUE
          /\ pc' = "done"
          /\ UNCHANGED err
    /\ UNCHANGED <<dataframe, columns, pieVars, contVars>>

Next ==
    \/ piechart("field", "VIN")
    \/ barchart_continuous("amount", "flag")
    \/ barchart_categorical("field", "flag")

Spec == Init /\ [][Next]_vars

\* =============================================================== claims
PieDone == pc = "done" /\ fn = "piechart"
ContDone == pc = "done" /\ fn = "barchart_continuous"
CatDone == pc = "done" /\ fn = "barchart_categorical"

RowsWhere(col, v) == { j \in DOMAIN dataframe : dataframe[j][col] = v }
Retained == SubSeq(top_n_cats, 1, Len(top_n_cats) - 1)
Others == top_n_cats[Len(top_n_cats)]

\* C1: the Count reported for a category c is the number of rows whose
\* target field is c and whose identifier is not missing (an identifier
\* of 0 counts, a missing identifier does not).
C1_CountIsNonMissingIdentifiers ==
    PieDone =>
        \A i \in DOMAIN pvt :
            pvt[i].Count =
                Cardinality({ j \in RowsWhere("field", pvt[i].field) : dataframe[j].VIN # NaN })

\* C2: the Concentration values of the returned table, the "Others" row
\* included, sum to 1.
C2_ConcentrationsSumToOne ==
    PieDone => FracEq(FracSum(Column(top_n_cats, "Concentration")), Frac(1, 1))

\* C3: the "Others" Count is the grand total minus the retained counts and
\* is never negative; with cats >= the number of distinct categories the
\* call succeeds and "Others" has Count 0 and Concentration 0.
C3_OthersRow ==
    /\ (fn = "piechart" /\ PieCols \subseteq columns) => pc = "done"
    /\ PieDone =>
        /\ Others.Count = SeqSum(Column(pvt, "Count")) - SeqSum(Column(Retained, "Count"))
        /\ Others.Count >= 0
        /\ cats >= Len(pvt) => Others.Count = 0 /\ FracEq(Others.Concentration, Frac(0, 1))

\* C4: with D distinct categories and cats >= 0 the table is min(cats, D)
\* category rows in non-increasing order of Count, no category left out
\* having a larger Count than a retained one, then the single row "Others";
\* red x6, blue x3, green x1 with cats = 2 gives red 6 (60%), blue 3 (30%),
\* Others 1 (10%).
C4_TopCategoriesThenOthers ==
    (PieDone /\ cats >= 0) =>
        LET D == Cardinality(Groups(dataframe, "field"))
            k == IF cats < D THEN cats ELSE D
        IN  /\ Len(top_n_cats) = k + 1
            /\ Others.field = "Others"
            /\ \A i \in 1..k : top_n_cats[i].field \in Groups(dataframe, "field")
            /\ \A i, j \in 1..k : i # j => top_n_cats[i].field # top_n_cats[j].field
            /\ \A i \in 1..(k - 1) : top_n_cats[i].Count >= top_n_cats[i + 1].Count
            /\ \A j \in DOMAIN pvt :
                 (\A i \in 1..k : top_n_cats[i].field # pvt[j].field)
                    => \A i \in 1..k : pvt[j].Count <= top_n_cats[i].Count
            /\ (dataframe = ColorExample /\ cats = 2) =>
                 /\ Column(top_n_cats, "field") = <<"red", "blue", "Others">>
                 /\ Column(top_n_cats, "Count") = <<6, 3, 1>>
                 /\ FracEq(top_n_cats[1].Concentration, Frac(60, 100))
                 /\ FracEq(top_n_cats[2].Concentration, Frac(30, 100))
                 /\ FracEq(top_n_cats[3].Concentration, Frac(10, 100))

C4_Witness ==
    /\ PieDone
    /\ dataframe = ColorExample
    /\ cats = 2
    /\ Len(pvt) = 3

\* C5: with n >= 2 and min < max, a present field value of either subset
\* is assigned to a bucket exactly when min <= v <= max (v = min and
\* v = max included).
C5_BucketsCoverClosedRange ==
    (ContDone /\ n >= 2 /\ min < max) =>
        \A v \in {0, 1} :
            LET before == Loc(dataframe, "flag", v)
                after == IF v = 1 THEN dataset_true ELSE dataset_false
            IN  \A i \in DOMAIN before :
                    before[i].amount # NaN =>
                        /\ after[i].amount \in 0..(n - 1)
                        /\ (after[i].amount # 0) <=> (min <= before[i].amount /\ before[i].amount <= max)

\* C6: for each subset, each fraction is the subset's row count in the
\* bucket over the number of its rows assigned to some bucket, and the
\* fractions sum to 1 whenever the subset has a present field value and
\* none of its field values lies outside [min, max].
C6_FractionsSumToOne ==
    (ContDone /\ n >= 2 /\ min < max) =>
        \A v \in {0, 1} :
            LET before == Loc(dataframe, "flag", v)
                after == IF v = 1 THEN dataset_true ELSE dataset_false
                bars == IF v = 1 THEN bars_true ELSE bars_false
            IN  /\ \A i \in DOMAIN bars :
                     /\ bars[i].num = Cardinality({ j \in DOMAIN after : after[j].amount = i })
                     /\ bars[i].den = Cardinality({ j \in DOMAIN after : after[j].amount # 0 })
                /\ ( /\ \E j \in DOMAIN before : before[j].amount # NaN
                     /\ \A j \in DOMAIN before :
                          before[j].amount # NaN =>
                              (min <= before[j].amount /\ before[j].amount <= max) )
                     => FracEq(FracSum(bars), Frac(1, 1))

\* C7: for every category c, count is the number of rows whose categorical
\* field is c, sum is the sum of the binary field over those rows, mean is
\* sum/count, and no group has count 0.
C7_CountIsGroupSize ==
    CatDone =>
        /\ DOMAIN categories = Groups(dataframe, "field")
        /\ \A c \in DOMAIN categories :
            /\ categories[c].count = Cardinality(RowsWhere("field", c))
            /\ categories[c].count # 0
            /\ categories[c].sum =
                 Cardinality(RowsWhere("field", c) \cap RowsWhere("flag", 1))
                 + 2 * Cardinality(RowsWhere("field", c) \cap RowsWhere("flag", 2))
            /\ FracEq(categories[c].mean, Frac(categories[c].sum, categories[c].count))

\* C7 as amended: count is the number of rows of the group whose binary
\* cell is present, sum the sum of those cells, mean sum/count when
\* count > 0 and NaN when count = 0; every group has at least one row.
C7_CountIsPresentCells ==
    CatDone =>
        /\ DOMAIN categories = Groups(dataframe, "field")
        /\ \A c \in DOMAIN categories :
            /\ categories[c].count =
                 Cardinality(RowsWhere("field", c) \ RowsWhere("flag", NaN))
            /\ RowsWhere("field", c) # {}
            /\ categories[c].sum =
                 Cardinality(RowsWhere("field", c) \cap RowsWhere("flag", 1))
                 + 2 * Cardinality(RowsWhere("field", c) \cap RowsWhere("flag", 2))
            /\ categories[c].count > 0 =>
                 FracEq(categories[c].mean, Frac(categories[c].sum, categories[c].count))
            /\ categories[c].count = 0 => IsNaN(categories[c].mean)

C7_Witness ==
    /\ CatDone
    /\ \E c \in DOMAIN categories : categories[c].count = 0
    /\ \E c \in DOMAIN categories :
         /\ categories[c].count = 1
         /\ Cardinality(RowsWhere("field", c)) = 2
         /\ categories[c].sum = 1

\* C8: barchart_continuous fails with an error, before any chart is
\* rendered, whenever n < 2 or min >= max after defaulting.
C8_InvalidParametersRaise ==
    (fn = "barchart_continuous" /\ ContCols \subseteq columns /\ (n < 2 \/ min >= max)) =>
        (pc = "raised" /\ err = "ValueError" /\ ~rendered)

\* C9: the dataset is split into the rows whose binary field is 1 and the
\* rows whose binary field is 0; a row whose binary field is missing or
\* anything else is in neither subset and in no bucket count or fraction.
C9_BinarySplit ==
    ContDone =>
        /\ Len(dataset_true) = Cardinality(RowsWhere("flag", 1))
        /\ Len(dataset_false) = Cardinality(RowsWhere("flag", 0))
        /\ \A i \in DOMAIN dataset_true : dataset_true[i].flag = 1
        /\ \A i \in DOMAIN dataset_false : dataset_false[i].flag = 0
        /\ \A v \in {0, 1} :
            LET bars == IF v = 1 THEN bars_true ELSE bars_false
                inBucket(i) == { j \in RowsWhere("flag", v) :
                                    BucketOf(dataframe[j].amount, min, max, n) = i }
            IN  \A i \in DOMAIN bars :
                    /\ bars[i].num = Cardinality(inBucket(i))
                    /\ bars[i].den = Cardinality(UNION { inBucket(b) : b \in DOMAIN bars })

C9_Witness ==
    /\ ContDone
    /\ n = 3
    /\ \E j \in RowsWhere("flag", 1) : dataframe[j].amount = max
    /\ \E j \in RowsWhere("flag", 0) : dataframe[j].amount = max
    /\ \E j \in RowsWhere("flag", 2) \cup RowsWhere("flag", NaN) : dataframe[j].amount = max
    /\ FracEq(bars_true[2], Frac(1, 1))
    /\ FracEq(bars_false[2], Frac(1, 1))

MissingField ==
    \/ fn = "piechart" /\ ~(PieCols \subseteq columns)
    \/ fn = "barchart_continuous" /\ ~(ContCols \subseteq columns)
    \/ fn = "barchart_categorical" /\ ~(CatCols \subseteq columns)

\* C10: each of the three functions fails with the missing-field error
\* (pandas' KeyError), before any chart is rendered, whenever a field name
\* it is given is absent from the dataset.
C10_MissingFieldRaisesKeyError ==
    MissingField => (pc = "raised" /\ err = "KeyError" /\ ~rendered)

\* C10 as amended: each of the three functions fails with an error before
\* any chart is rendered whenever a field name it is given is absent; the
\* error is KeyError, except that barchart_continuous given n < 0, both min
\* and max, and a dataset without the continuous field only, fails with
\* the ValueError of np.linspace.
C10_MissingFieldRaises ==
    MissingField =>
        /\ pc = "raised"
        /\ ~rendered
        /\ \/ err = "KeyError"
           \/ /\ err = "ValueError"
              /\ fn = "barchart_continuous"
              /\ n < 0 /\ min # None /\ max # None
              /\ "flag" \in columns /\ "amount" \notin columns

C10_Witness ==
    /\ fn = "barchart_continuous"
    /\ columns = {"flag"}
    /\ n = 2 /\ min = 1 /\ max = 3
    /\ pc = "raised"
    /\ err = "KeyError"
====
